---------------------------- MODULE Spec2Model ----------------------------
(***************************************************************************)
(* A model of the bitvec_padded crate (src/src/lib.rs): the owning BitVec, *)
(* the borrowing BitView and the BitIterator, with the u8 arithmetic of    *)
(* the source kept at its width.                                           *)
(*                                                                         *)
(* A BitVec or a BitView is the record                                     *)
(*     [raw_data |-> <<bytes>>, last_byte_padding |-> 0..255].             *)
(* A BitIterator is [bits |-> BitView, i |-> Nat].                         *)
(* An operation that can panic returns a record with a `panic` field; the  *)
(* state machines below stop at the first panic (`panicked`).              *)
(***************************************************************************)
EXTENDS Integers, Sequences, FiniteSets, TLC

VARIABLES
    overflow_checks, \* build profile: TRUE = arithmetic overflow panics (debug)
    panicked,        \* a call has panicked (unwrap on None / overflow check)
    a,               \* the BitVec the caller mutates
    b,               \* a second BitVec, the source of borrowed views
    xa,              \* the booleans given to `a` so far, in order
    xb,              \* the booleans given to `b` so far, in order
    op,              \* the last call made on `a`: [name, bit]
    xs,              \* the boolean slice a test builds `a` from
    ys,              \* the boolean slice a test builds `b` from
    it,              \* a BitIterator
    ret,             \* what the last next()/deserialize call returned
    emitted,         \* how many times `it` has returned Some
    input,           \* the byte slice handed to deserialize
    buf,             \* the Vec<u8> handed to serialize
    steps            \* calls SpecApi has made on `a` since it was constructed

vars == <<overflow_checks, panicked, a, b, xa, xb, op, xs, ys, it, ret,
          emitted, input, buf, steps>>

---------------------------------------------------------------------------
(* Bounds of the model *)

\* longest boolean slice given to `a`
MaxBits == 9
\* longest boolean slice given to `b`
MaxBitsB == 2
\* longest boolean slice given to from_bool_slice between other calls
MaxSlice == 1
\* largest capacity asked of with_capacity
MaxCap == 1
\* most storage bytes of an iterated view
MaxViewBytes == 3
\* longest input of deserialize
MaxInput == 3
\* most storage bytes of a vector SpecApi grows
MaxVecBytes == 2
\* most calls SpecApi makes on one vector after its construction
MaxCalls == 3

(* Program constants *)

\* width of a byte: `* 8`, `/ 8`, `% 8`
ByteBits == 8
\* position of the first bit of a byte: `<< 7`, `7 - bit_in_byte_i`
MsbPos == 7
\* values of a u8
U8Mod == 256

---------------------------------------------------------------------------
(* u8 arithmetic *)

\* bit `s` (0 = least significant) of the byte x
BitOf(x, s) == (x \div (2 ^ s)) % 2

\* x | y on u8
U8Or(x, y) ==
    LET t(s) == IF BitOf(x, s) = 1 \/ BitOf(y, s) = 1 THEN 2 ^ s ELSE 0
    IN  t(0) + t(1) + t(2) + t(3) + t(4) + t(5) + t(6) + t(7)

\* x & y on u8
U8And(x, y) ==
    LET t(s) == IF BitOf(x, s) = 1 /\ BitOf(y, s) = 1 THEN 2 ^ s ELSE 0
    IN  t(0) + t(1) + t(2) + t(3) + t(4) + t(5) + t(6) + t(7)

\* x << s on u8: overflows when s >= 8; the unchecked build masks the
\* shift amount to 3 bits (wrapping_shl) and drops the bits shifted out
U8Shl(x, s) ==
    [val |-> (x * (2 ^ (s % ByteBits))) % U8Mod, overflow |-> s >= ByteBits]

\* x - y on u8: overflows when y > x; the unchecked build wraps
U8Sub(x, y) ==
    [val |-> (x - y + U8Mod) % U8Mod, overflow |-> y > x]

\* `bit as u8`
BoolAsU8(bit) == IF bit THEN 1 ELSE 0

---------------------------------------------------------------------------
(* BitVec *)

\* pub const fn least_bytes_repr_for_bits(bit_count)
least_bytes_repr_for_bits(bit_count) ==
    (bit_count \div ByteBits) + (IF bit_count % ByteBits # 0 THEN 1 ELSE 0)

\* BitVec::new()
new == [raw_data |-> <<>>, last_byte_padding |-> 0]

\* BitVec::with_capacity(capacity): the reservation is not part of the value
with_capacity(capacity) ==
    LET reserved == least_bytes_repr_for_bits(capacity)
    IN  [raw_data |-> <<>>, last_byte_padding |-> 0]

\* BitVec::len_bits(): raw_data.len() * 8 - last_byte_padding as usize.
\* A negative value here is the usize underflow of the source.
BitVec_len_bits(self) ==
    Len(self.raw_data) * ByteBits - self.last_byte_padding

\* BitVec::least_len_bytes()
BitVec_least_len_bytes(self) == Len(self.raw_data)

\* append_bit that forgets `self.last_byte_padding -= 1`
append_bit_no_decrement(self, bit) ==
    IF self.last_byte_padding = 0
    THEN [self  |-> [raw_data |-> Append(self.raw_data,
                                         U8Shl(BoolAsU8(bit), MsbPos).val),
                     last_byte_padding |-> MsbPos],
          panic |-> FALSE]
    ELSE IF Len(self.raw_data) = 0
    THEN [self |-> self, panic |-> TRUE]
    ELSE LET n         == Len(self.raw_data)
             last_byte == self.raw_data[n]
             sh        == U8Shl(BoolAsU8(bit), self.last_byte_padding - 1)
         IN  IF sh.overflow /\ overflow_checks
             THEN [self |-> self, panic |-> TRUE]
             ELSE [self  |-> [raw_data |->
                                 [self.raw_data EXCEPT ![n] = U8Or(last_byte, sh.val)],
                              last_byte_padding |-> self.last_byte_padding],
                   panic |-> FALSE]

\* append_bit that shifts by last_byte_padding instead of last_byte_padding - 1
append_bit_shift_off_by_one(self, bit) ==
    IF self.last_byte_padding = 0
    THEN [self  |-> [raw_data |-> Append(self.raw_data,
                                         U8Shl(BoolAsU8(bit), MsbPos).val),
                     last_byte_padding |-> MsbPos],
          panic |-> FALSE]
    ELSE IF Len(self.raw_data) = 0
    THEN [self |-> self, panic |-> TRUE]
    ELSE LET n         == Len(self.raw_data)
             last_byte == self.raw_data[n]
             sh        == U8Shl(BoolAsU8(bit), self.last_byte_padding)
         IN  IF sh.overflow /\ overflow_checks
             THEN [self |-> self, panic |-> TRUE]
             ELSE [self  |-> [raw_data |->
                                 [self.raw_data EXCEPT ![n] = U8Or(last_byte, sh.val)],
                              last_byte_padding |-> self.last_byte_padding - 1],
                   panic |-> FALSE]

\* append_bit that gives a new byte 8 bits of padding instead of 7
append_bit_padding_8(self, bit) ==
    IF self.last_byte_padding = 0
    THEN [self  |-> [raw_data |-> Append(self.raw_data,
                                         U8Shl(BoolAsU8(bit), MsbPos).val),
                     last_byte_padding |-> MsbPos + 1],
          panic |-> FALSE]
    ELSE IF Len(self.raw_data) = 0
    THEN [self |-> self, panic |-> TRUE]
    ELSE LET n         == Len(self.raw_data)
             last_byte == self.raw_data[n]
             sh        == U8Shl(BoolAsU8(bit), self.last_byte_padding - 1)
         IN  IF sh.overflow /\ overflow_checks
             THEN [self |-> self, panic |-> TRUE]
             ELSE [self  |-> [raw_data |->
                                 [self.raw_data EXCEPT ![n] = U8Or(last_byte, sh.val)],
                              last_byte_padding |-> self.last_byte_padding - 1],
                   panic |-> FALSE]

\* BitVec::append_bit(&mut self, bit): [self |-> the vector after the call,
\* panic |-> whether the call panicked]
append_bit(self, bit) ==
    IF self.last_byte_padding = 0
    THEN [self  |-> [raw_data |-> Append(self.raw_data,
                                         U8Shl(BoolAsU8(bit), MsbPos).val),
                     last_byte_padding |-> MsbPos],
          panic |-> FALSE]
    ELSE IF Len(self.raw_data) = 0
    THEN \* raw_data.last_mut().unwrap() on an empty vector
         [self |-> self, panic |-> TRUE]
    ELSE LET n         == Len(self.raw_data)
             last_byte == self.raw_data[n]
             sh        == U8Shl(BoolAsU8(bit), self.last_byte_padding - 1)
         IN  IF sh.overflow /\ overflow_checks
             THEN [self |-> self, panic |-> TRUE]
             ELSE [self  |-> [raw_data |->
                                 [self.raw_data EXCEPT ![n] = U8Or(last_byte, sh.val)],
                              last_byte_padding |-> self.last_byte_padding - 1],
                   panic |-> FALSE]

\* BitVec::as_bit_view()
as_bit_view(self) ==
    [raw_data |-> self.raw_data, last_byte_padding |-> self.last_byte_padding]

\* BitVec::as_padded_bytes()
BitVec_as_padded_bytes(self) == <<self.raw_data, self.last_byte_padding>>

---------------------------------------------------------------------------
(* BitView and BitIterator *)

\* BitView::from_padded_bytes(bytes, last_byte_padding)
from_padded_bytes(bytes, last_byte_padding) ==
    [raw_data |-> bytes, last_byte_padding |-> last_byte_padding]

\* #[derive(Clone)] on BitView: the slice reference and the padding are copied
BitView_clone(self) ==
    [raw_data |-> self.raw_data, last_byte_padding |-> self.last_byte_padding]

\* BitView::iter_bits()
BitView_iter_bits(self) == [bits |-> BitView_clone(self), i |-> 0]

\* BitVec::iter_bits()
BitVec_iter_bits(self) == [bits |-> as_bit_view(self), i |-> 0]

\* BitView::len_bits()
BitView_len_bits(self) ==
    Len(self.raw_data) * ByteBits - self.last_byte_padding

\* BitView::least_len_bytes()
BitView_least_len_bytes(self) == Len(self.raw_data)

\* BitView::as_padded_bytes()
BitView_as_padded_bytes(self) == <<self.raw_data, self.last_byte_padding>>

\* Option<bool>
None == [some |-> FALSE, val |-> FALSE]
Some(v) == [some |-> TRUE, val |-> v]

\* next() whose padding cutoff compares with > instead of >=
BitIterator_next_cutoff_late(self) ==
    LET byte_i == self.i \div ByteBits
        len    == Len(self.bits.raw_data)
    IN  IF byte_i >= len
        THEN [it |-> self, ret |-> None, panic |-> FALSE]
        ELSE LET byte          == self.bits.raw_data[byte_i + 1]
                 bit_in_byte_i == self.i % ByteBits
                 lim           == U8Sub(ByteBits, self.bits.last_byte_padding)
                 mask          == U8Shl(1, MsbPos - bit_in_byte_i).val
             IN  IF byte_i = len - 1 /\ lim.overflow /\ overflow_checks
                 THEN [it |-> self, ret |-> None, panic |-> TRUE]
                 ELSE IF byte_i = len - 1 /\ bit_in_byte_i > lim.val
                 THEN [it |-> self, ret |-> None, panic |-> FALSE]
                 ELSE [it    |-> [self EXCEPT !.i = @ + 1],
                       ret   |-> Some(U8And(byte, mask) # 0),
                       panic |-> FALSE]

\* next() that advances the cursor before the padding cutoff is tested
BitIterator_next_advance_early(self) ==
    LET byte_i == self.i \div ByteBits
        len    == Len(self.bits.raw_data)
    IN  IF byte_i >= len
        THEN [it |-> self, ret |-> None, panic |-> FALSE]
        ELSE LET byte          == self.bits.raw_data[byte_i + 1]
                 bit_in_byte_i == self.i % ByteBits
                 lim           == U8Sub(ByteBits, self.bits.last_byte_padding)
                 mask          == U8Shl(1, MsbPos - bit_in_byte_i).val
             IN  IF byte_i = len - 1 /\ lim.overflow /\ overflow_checks
                 THEN [it |-> self, ret |-> None, panic |-> TRUE]
                 ELSE IF byte_i = len - 1 /\ bit_in_byte_i >= lim.val
                 THEN [it |-> [self EXCEPT !.i = @ + 1], ret |-> None, panic |-> FALSE]
                 ELSE [it    |-> [self EXCEPT !.i = @ + 1],
                       ret   |-> Some(U8And(byte, mask) # 0),
                       panic |-> FALSE]

\* <BitIterator as Iterator>::next(&mut self):
\* [it |-> the iterator after the call, ret |-> Option<bool>, panic]
BitIterator_next(self) ==
    LET byte_i == self.i \div ByteBits
        len    == Len(self.bits.raw_data)
    IN  IF byte_i >= len
        THEN [it |-> self, ret |-> None, panic |-> FALSE]
        ELSE LET byte          == self.bits.raw_data[byte_i + 1]
                 bit_in_byte_i == self.i % ByteBits
                 lim           == U8Sub(ByteBits, self.bits.last_byte_padding)
                 mask          == U8Shl(1, MsbPos - bit_in_byte_i).val
             IN  IF byte_i = len - 1 /\ lim.overflow /\ overflow_checks
                 THEN [it |-> self, ret |-> None, panic |-> TRUE]
                 ELSE IF byte_i = len - 1 /\ bit_in_byte_i >= lim.val
                 THEN [it |-> self, ret |-> None, panic |-> FALSE]
                 ELSE [it    |-> [self EXCEPT !.i = @ + 1],
                       ret   |-> Some(U8And(byte, mask) # 0),
                       panic |-> FALSE]

\* Iterator::collect::<Box<[bool]>>(): next() until None
RECURSIVE collect_from(_, _)
collect_from(iter, acc) ==
    LET r == BitIterator_next(iter)
    IN  IF r.panic THEN [out |-> acc, panic |-> TRUE]
        ELSE IF ~r.ret.some THEN [out |-> acc, panic |-> FALSE]
        ELSE collect_from(r.it, Append(acc, r.ret.val))

collect(iter) == collect_from(iter, <<>>)

\* BitVec::to_bool_slice()
BitVec_to_bool_slice(self) == collect(BitVec_iter_bits(self))

\* BitView::to_bool_slice()
BitView_to_bool_slice(self) == collect(BitView_iter_bits(self))

\* BitVec::extend_from_bits(&mut self, bit_view): the loop of the unaligned path
RECURSIVE extend_loop(_, _)
extend_loop(self, iter) ==
    LET n == BitIterator_next(iter)
    IN  IF n.panic THEN [self |-> self, panic |-> TRUE]
        ELSE IF ~n.ret.some THEN [self |-> self, panic |-> FALSE]
        ELSE LET r == append_bit(self, n.ret.val)
             IN  IF r.panic THEN r ELSE extend_loop(r.self, n.it)

\* extend_from_bits whose aligned path does not adopt the view's padding
extend_from_bits_keep_padding(self, bit_view) ==
    IF self.last_byte_padding = 0
    THEN [self  |-> [raw_data |-> self.raw_data \o bit_view.raw_data,
                     last_byte_padding |-> self.last_byte_padding],
          panic |-> FALSE]
    ELSE extend_loop(self, BitView_iter_bits(bit_view))

\* BitVec::extend_from_bits(&mut self, bit_view)
extend_from_bits(self, bit_view) ==
    IF self.last_byte_padding = 0
    THEN [self  |-> [raw_data |-> self.raw_data \o bit_view.raw_data,
                     last_byte_padding |-> bit_view.last_byte_padding],
          panic |-> FALSE]
    ELSE extend_loop(self, BitView_iter_bits(bit_view))

\* BitVec::from_bool_slice(bools): the loop over the slice
RECURSIVE from_bool_loop(_, _)
from_bool_loop(res, bools) ==
    IF bools = <<>> THEN [self |-> res, panic |-> FALSE]
    ELSE LET r == append_bit(res, Head(bools))
         IN  IF r.panic THEN r ELSE from_bool_loop(r.self, Tail(bools))

\* BitVec::from_bool_slice(bools)
from_bool_slice(bools) == from_bool_loop(with_capacity(Len(bools)), bools)

---------------------------------------------------------------------------
(* Serialization *)

\* Result<_, ()>
Err == [ok |-> FALSE, val |-> [raw_data |-> <<>>, last_byte_padding |-> 0]]
Ok(v) == [ok |-> TRUE, val |-> v]

\* serialize that writes the padding byte after the raw bytes
serialize_padding_last(self, buffer) ==
    (buffer \o self.raw_data) \o <<self.last_byte_padding>>

\* BitVec::serialize(&self, buf): the buffer after the call
serialize(self, buffer) ==
    (buffer \o <<self.last_byte_padding>>) \o self.raw_data

\* BitVec::deserialize(input)
BitVec_deserialize(inp) ==
    IF Len(inp) = 0 THEN Err
    ELSE Ok([raw_data |-> SubSeq(inp, 2, Len(inp)),
             last_byte_padding |-> inp[1]])

\* BitView::serialize(&self)
BitView_serialize(self) == <<self.last_byte_padding>> \o self.raw_data

\* BitView::deserialize that borrows the whole input instead of input[1..]
BitView_deserialize_whole_input(inp) ==
    IF Len(inp) = 0 THEN Err
    ELSE Ok([raw_data |-> inp, last_byte_padding |-> inp[1]])

\* BitView::deserialize(input)
BitView_deserialize(inp) ==
    IF Len(inp) = 0 THEN Err
    ELSE Ok([raw_data |-> SubSeq(inp, 2, Len(inp)),
             last_byte_padding |-> inp[1]])

---------------------------------------------------------------------------
(* The callers: what is the same in every specification *)

\* the boolean slices of at most n elements
BoolSeqs(n) == UNION {[1..k -> BOOLEAN] : k \in 0..n}

\* the byte slices of at most n elements drawn from S
ByteSeqs(S, n) == UNION {[1..k -> S] : k \in 0..n}

\* the data-model invariant of a BitVec or BitView
ValidPadding(v) ==
    /\ v.last_byte_padding \in 0..7
    /\ (Len(v.raw_data) = 0 => v.last_byte_padding = 0)

\* a call and, for append_bit, its argument
Call(name, bit) == [name |-> name, bit |-> bit]

\* before any call: both vectors are BitVec::new()
Start ==
    /\ overflow_checks \in BOOLEAN
    /\ panicked = FALSE
    /\ a = new
    /\ b = new
    /\ xa = <<>>
    /\ xb = <<>>
    /\ op = Call("init", FALSE)
    /\ ret = None
    /\ emitted = 0
    /\ buf = <<>>
    /\ steps = 0

---------------------------------------------------------------------------
(* Spec: two vectors built by the constructors, append_bit and              *)
(* extend_from_bits of each other's as_bit_view(), in any order            *)

Init ==
    /\ Start
    /\ xs = <<>>
    /\ ys = <<>>
    /\ it = BitVec_iter_bits(new)
    /\ input = <<>>

\* let a = BitVec::new()
NewA ==
    /\ ~panicked
    /\ a' = new
    /\ xa' = <<>>
    /\ op' = Call("new", FALSE)
    /\ steps' = 0
    /\ UNCHANGED <<overflow_checks, panicked, b, xb, xs, ys, it, ret, emitted, input, buf>>

\* let a = BitVec::with_capacity(n)
WithCapacityA ==
    /\ ~panicked
    /\ \E n \in 0..MaxCap : a' = with_capacity(n)
    /\ xa' = <<>>
    /\ op' = Call("with_capacity", FALSE)
    /\ steps' = 0
    /\ UNCHANGED <<overflow_checks, panicked, b, xb, xs, ys, it, ret, emitted, input, buf>>

\* let a = BitVec::from_bool_slice(bools)
FromBoolSliceA ==
    /\ ~panicked
    /\ \E bools \in BoolSeqs(MaxSlice) :
          LET r == from_bool_slice(bools)
          IN  /\ a' = r.self
              /\ panicked' = r.panic
              /\ xa' = bools
    /\ op' = Call("from_bool_slice", FALSE)
    /\ steps' = 0
    /\ UNCHANGED <<overflow_checks, b, xb, xs, ys, it, ret, emitted, input, buf>>

\* a.append_bit(bit)
AppendBitA ==
    /\ ~panicked
    /\ Len(xa) < MaxBits
    /\ \E bit \in BOOLEAN :
          LET r == append_bit(a, bit)
          IN  /\ a' = r.self
              /\ panicked' = r.panic
              /\ xa' = Append(xa, bit)
              /\ op' = Call("append_bit", bit)
    /\ UNCHANGED <<steps, overflow_checks, b, xb, xs, ys, it, ret, emitted, input, buf>>

\* a.extend_from_bits(&b.as_bit_view())
ExtendA ==
    /\ ~panicked
    /\ Len(xa) + Len(xb) <= MaxBits
    /\ LET r == extend_from_bits(a, as_bit_view(b))
       IN  /\ a' = r.self
           /\ panicked' = r.panic
    /\ xa' = xa \o xb
    /\ op' = Call("extend_from_bits", FALSE)
    /\ UNCHANGED <<steps, overflow_checks, b, xb, xs, ys, it, ret, emitted, input, buf>>

\* let b = BitVec::new()
NewB ==
    /\ ~panicked
    /\ b' = new
    /\ xb' = <<>>
    /\ UNCHANGED <<steps, overflow_checks, panicked, a, xa, op, xs, ys, it, ret, emitted, input, buf>>

\* let b = BitVec::from_bool_slice(bools)
FromBoolSliceB ==
    /\ ~panicked
    /\ \E bools \in BoolSeqs(MaxSlice) :
          LET r == from_bool_slice(bools)
          IN  /\ b' = r.self
              /\ panicked' = r.panic
              /\ xb' = bools
    /\ UNCHANGED <<steps, overflow_checks, a, xa, op, xs, ys, it, ret, emitted, input, buf>>

\* b.append_bit(bit)
AppendBitB ==
    /\ ~panicked
    /\ Len(xb) < MaxBitsB
    /\ \E bit \in BOOLEAN :
          LET r == append_bit(b, bit)
          IN  /\ b' = r.self
              /\ panicked' = r.panic
              /\ xb' = Append(xb, bit)
    /\ UNCHANGED <<steps, overflow_checks, a, xa, op, xs, ys, it, ret, emitted, input, buf>>

\* b.extend_from_bits(&a.as_bit_view())
ExtendB ==
    /\ ~panicked
    /\ Len(xb) + Len(xa) <= MaxBitsB
    /\ LET r == extend_from_bits(b, as_bit_view(a))
       IN  /\ b' = r.self
           /\ panicked' = r.panic
    /\ xb' = xb \o xa
    /\ UNCHANGED <<steps, overflow_checks, a, xa, op, xs, ys, it, ret, emitted, input, buf>>

Next ==
    \/ NewA
    \/ WithCapacityA
    \/ FromBoolSliceA
    \/ AppendBitA
    \/ ExtendA
    \/ NewB
    \/ FromBoolSliceB
    \/ AppendBitB
    \/ ExtendB

Spec == Init /\ [][Next]_vars

\* C9: in every state reached from the constructors by append_bit and by
\* extend_from_bits of as_bit_view() of a vector reached the same way, the
\* padding is in 0..7, it is 0 when there are no bytes, len_bits() does not
\* underflow and least_len_bytes() is ceil(len_bits() / 8).
C9_DataModelInvariant ==
    \A v \in {a, b} :
        /\ v.last_byte_padding \in 0..7
        /\ (Len(v.raw_data) = 0 => v.last_byte_padding = 0)
        /\ BitVec_len_bits(v) >= 0
        /\ BitVec_least_len_bytes(v) = least_bytes_repr_for_bits(BitVec_len_bits(v))

\* an aligned extension of a full byte by a one-bit vector has happened
C9_Witness ==
    /\ op.name = "extend_from_bits"
    /\ Len(xa) = 9
    /\ Len(xb) = 1
    /\ Len(a.raw_data) = 2
    /\ a.last_byte_padding = 7

\* C7: the k-th bit given to the vector is bit 7 - (k mod 8), counted from
\* the least significant end, of byte k div 8 of as_padded_bytes() and of
\* the bytes serialize writes after the padding byte, and the iterator's
\* k-th value is read from that position.
C7_MsbFirstLayout ==
    LET bytes == BitVec_as_padded_bytes(a)[1]
        ser   == serialize(a, <<>>)
        read  == BitVec_to_bool_slice(a).out
    IN  \A k \in 0..(Len(xa) - 1) :
            /\ (k \div 8) + 1 <= Len(bytes)
            /\ (BitOf(bytes[(k \div 8) + 1], 7 - (k % 8)) = 1) = xa[k + 1]
            /\ (BitOf(ser[(k \div 8) + 2], 7 - (k % 8)) = 1) = xa[k + 1]
            /\ k + 1 <= Len(read)
            /\ read[k + 1] = (BitOf(bytes[(k \div 8) + 1], 7 - (k % 8)) = 1)

\* nine bits appended one by one: bit 0 set is 0x80 of byte 0, bit 8 set is
\* 0x80 of byte 1
C7_Witness ==
    /\ op.name = "append_bit"
    /\ xa = <<TRUE, FALSE, FALSE, FALSE, FALSE, FALSE, FALSE, TRUE, TRUE>>
    /\ a.raw_data = <<129, 128>>

---------------------------------------------------------------------------
(* SpecAppend: one vector from new() or with_capacity(n), then append_bit  *)
(* calls only; Len(xa) is the number of append_bit calls made              *)

NextAppend ==
    \/ NewA
    \/ WithCapacityA
    \/ AppendBitA

SpecAppend == Init /\ [][NextAppend]_vars

\* C2: after k append_bit calls on a vector from new() or with_capacity(n),
\* len_bits() is k, and every append_bit raises len_bits() by exactly 1.
C2_LengthInvariant ==
    /\ [](BitVec_len_bits(a) = Len(xa))
    /\ [][op'.name = "append_bit" =>
            BitVec_len_bits(a') = BitVec_len_bits(a) + 1]_vars

\* nine appends: one full byte and one bit of the next
C2_Witness ==
    /\ op.name = "append_bit"
    /\ Len(xa) = 9
    /\ Len(a.raw_data) = 2

---------------------------------------------------------------------------
(* SpecTests: the tests of the source over all short slices: build `a`     *)
(* from xs, build `b` from ys, extend `a` by the view of `b` and read back *)

\* the slices the tests of the source use
TestSlices ==
    { <<TRUE, TRUE, FALSE, TRUE, FALSE, TRUE, FALSE, TRUE, TRUE, TRUE>>,
      <<TRUE, TRUE, FALSE, TRUE, FALSE, TRUE, FALSE, TRUE>>,
      <<FALSE, TRUE, FALSE, TRUE, FALSE, TRUE>>,
      <<TRUE, FALSE, FALSE, TRUE, FALSE>>,
      <<TRUE, FALSE, FALSE, FALSE, FALSE, TRUE>>,
      <<TRUE, FALSE, FALSE, TRUE, FALSE, TRUE, FALSE, FALSE, FALSE, FALSE, TRUE>> }

InitTests ==
    /\ Start
    /\ xs \in BoolSeqs(MaxBits) \cup TestSlices
    /\ ys \in BoolSeqs(MaxBitsB) \cup TestSlices
    /\ it = BitVec_iter_bits(new)
    /\ input = <<>>

\* let mut va = BitVec::from_bool_slice(&a)
TestFromBoolSliceA ==
    /\ ~panicked
    /\ op.name = "init"
    /\ LET r == from_bool_slice(xs)
       IN  /\ a' = r.self
           /\ panicked' = r.panic
    /\ xa' = xs
    /\ op' = Call("from_bool_slice", FALSE)
    /\ UNCHANGED <<steps, overflow_checks, b, xb, xs, ys, it, ret, emitted, input, buf>>

\* let vb = BitVec::from_bool_slice(&b)
TestFromBoolSliceB ==
    /\ ~panicked
    /\ op.name = "from_bool_slice"
    /\ LET r == from_bool_slice(ys)
       IN  /\ b' = r.self
           /\ panicked' = r.panic
    /\ xb' = ys
    /\ UNCHANGED <<steps, overflow_checks, a, xa, op, xs, ys, it, ret, emitted, input, buf>>

\* va.extend_from_bits(&vb.as_bit_view())
TestExtend ==
    /\ ~panicked
    /\ op.name = "from_bool_slice"
    /\ LET r == extend_from_bits(a, as_bit_view(b))
       IN  /\ a' = r.self
           /\ panicked' = r.panic
    /\ xa' = xa \o xb
    /\ op' = Call("extend_from_bits", FALSE)
    /\ UNCHANGED <<steps, overflow_checks, b, xb, xs, ys, it, ret, emitted, input, buf>>

NextTests ==
    \/ TestFromBoolSliceA
    \/ TestFromBoolSliceB
    \/ TestExtend

SpecTests == InitTests /\ [][NextTests]_vars

\* C1: a vector built by from_bool_slice(xs) reads back as xs through
\* to_bool_slice(), through as_bit_view().to_bool_slice() and through a
\* clone of that view, for every xs (empty, whole bytes, partly filled
\* last byte).
C1_RoundTrip ==
    op.name = "from_bool_slice" =>
        LET view == as_bit_view(a)
            back == [out |-> xs, panic |-> FALSE]
        IN  /\ ~panicked
            /\ BitVec_to_bool_slice(a) = back
            /\ BitView_to_bool_slice(view) = back
            /\ BitView_to_bool_slice(BitView_clone(view)) = back

\* a slice of nine booleans, the last byte partly filled, has been built
C1_Witness ==
    /\ op.name = "from_bool_slice"
    /\ Len(xs) = 9
    /\ xs[9] = TRUE
    /\ a.last_byte_padding = 7

\* C4: with a = from_bool_slice(xs) and b = from_bool_slice(xb), after
\* a.extend_from_bits(&b.as_bit_view()) the vector reads back as xs followed
\* by xb, on the aligned path and on the bit-by-bit path alike.
C4_ExtendIsConcatenation ==
    op.name = "extend_from_bits" =>
        /\ ~panicked
        /\ BitVec_to_bool_slice(a) = [out |-> xs \o xb, panic |-> FALSE]

\* the extension of check_extend (bit by bit, across a byte boundary)
C4_Witness ==
    /\ op.name = "extend_from_bits"
    /\ xs = <<TRUE, FALSE, FALSE, TRUE, FALSE>>
    /\ xb = <<TRUE, FALSE, FALSE, FALSE, FALSE, TRUE>>
    /\ a.raw_data = <<148, 32>>
    /\ a.last_byte_padding = 5

---------------------------------------------------------------------------
(* SpecIter: one BitIterator over a view that satisfies the data-model     *)
(* invariant, next() called again and again                                *)

\* storage bytes of the iterated views
IterBytes == {0, 165, 255}

InitIter ==
    /\ Start
    /\ xs = <<>>
    /\ ys = <<>>
    /\ input = <<>>
    /\ \E bytes \in ByteSeqs(IterBytes, MaxViewBytes), p \in 0..7 :
          /\ ValidPadding(from_padded_bytes(bytes, p))
          /\ it = BitView_iter_bits(from_padded_bytes(bytes, p))

\* it.next()
IterNext ==
    /\ ~panicked
    /\ LET r == BitIterator_next(it)
       IN  /\ it' = r.it
           /\ ret' = r.ret
           /\ panicked' = r.panic
           /\ emitted' = IF r.ret.some THEN emitted + 1 ELSE emitted
    /\ op' = Call("next", FALSE)
    /\ UNCHANGED <<steps, overflow_checks, a, b, xa, xb, xs, ys, input, buf>>

NextIter == IterNext

SpecIter == InitIter /\ [][NextIter]_vars

\* C6: over a view that satisfies the data-model invariant, a fresh iterator
\* returns Some while fewer than len_bits() values have been returned, and
\* once len_bits() values have been returned every call returns None and
\* leaves the iterator as it is.
C6_IteratorTermination ==
    LET n == BitView_len_bits(it.bits)
        r == BitIterator_next(it)
    IN  /\ ~panicked
        /\ emitted <= n
        /\ (emitted < n => r.ret.some /\ ~r.panic)
        /\ (emitted = n => r = [it |-> it, ret |-> None, panic |-> FALSE])
        /\ (op.name = "next" /\ ~ret.some => emitted = n)

\* three storage bytes with seven bits of padding: 17 values, then None
C6_Witness ==
    /\ op.name = "next"
    /\ ~ret.some
    /\ emitted = 17
    /\ Len(it.bits.raw_data) = 3

---------------------------------------------------------------------------
(* SpecSerde: deserialize of any short input, for BitVec and for BitView,  *)
(* and serialize of a vector into an empty buffer followed by deserialize  *)

\* bytes of the inputs: paddings inside and outside 0..7, and data
SerdeBytes == {0, 3, 7, 9, 128, 255}

InitSerde ==
    /\ Start
    /\ xs = <<>>
    /\ ys = <<>>
    /\ it = BitVec_iter_bits(new)
    /\ input \in ByteSeqs(SerdeBytes, MaxInput)

\* let res = BitVec::deserialize(input)
SerdeDeserializeVec ==
    /\ ~panicked
    /\ ret' = BitVec_deserialize(input)
    /\ op' = Call("BitVec::deserialize", FALSE)
    /\ UNCHANGED <<steps, overflow_checks, panicked, a, b, xa, xb, xs, ys, it, emitted, input, buf>>

\* let res = BitView::deserialize(input)
SerdeDeserializeView ==
    /\ ~panicked
    /\ ret' = BitView_deserialize(input)
    /\ op' = Call("BitView::deserialize", FALSE)
    /\ UNCHANGED <<steps, overflow_checks, panicked, a, b, xa, xb, xs, ys, it, emitted, input, buf>>

\* let a = res.unwrap(), for an Ok result of BitVec::deserialize, before
\* anything is serialized
SerdeAdopt ==
    /\ ~panicked
    /\ op.name = "BitVec::deserialize"
    /\ ret.ok
    /\ buf = <<>>
    /\ a' = ret.val
    /\ op' = Call("unwrap", FALSE)
    /\ UNCHANGED <<steps, overflow_checks, panicked, b, xa, xb, xs, ys, it, ret, emitted, input, buf>>

\* let mut ser = Vec::new(); a.serialize(&mut ser)
SerdeSerialize ==
    /\ ~panicked
    /\ buf = <<>>
    /\ buf' = serialize(a, buf)
    /\ op' = Call("serialize", FALSE)
    /\ UNCHANGED <<steps, overflow_checks, panicked, a, b, xa, xb, xs, ys, it, ret, emitted, input>>

\* the serialized buffer becomes the input of the next deserialize: &ser
SerdePass ==
    /\ ~panicked
    /\ op.name = "serialize"
    /\ input' = buf
    /\ op' = Call("pass", FALSE)
    /\ UNCHANGED <<steps, overflow_checks, panicked, a, b, xa, xb, xs, ys, it, ret, emitted, buf>>

NextSerde ==
    \/ SerdeDeserializeVec
    \/ SerdeDeserializeView
    \/ SerdeAdopt
    \/ SerdeSerialize
    \/ SerdePass

SpecSerde == InitSerde /\ [][NextSerde]_vars

\* C3: a vector serialized into an empty buffer and deserialized from that
\* buffer comes back Ok with the same raw bytes and the same padding.
C3_SerdeRoundTrip ==
    (op.name = "BitVec::deserialize" /\ buf # <<>> /\ input = buf) =>
        /\ ret.ok
        /\ ret.val.raw_data = a.raw_data
        /\ ret.val.last_byte_padding = a.last_byte_padding

\* a vector of two bytes with padding 9 has gone through the round trip
C3_Witness ==
    /\ op.name = "BitVec::deserialize"
    /\ buf = <<9, 128, 255>>
    /\ input = buf
    /\ a = [raw_data |-> <<128, 255>>, last_byte_padding |-> 9]

\* C5: BitVec::deserialize and BitView::deserialize return the error on the
\* empty input and only there; on any other input they return Ok with the
\* first byte as last_byte_padding, whatever its value, and the bytes from
\* offset 1 on as raw_data; the input is not changed.
C5_DeserializeOutcome ==
    /\ [](op.name \in {"BitVec::deserialize", "BitView::deserialize"} =>
            /\ (ret.ok <=> Len(input) > 0)
            /\ (Len(input) = 0 => ret = Err)
            /\ (Len(input) > 0 =>
                    /\ ret.val.last_byte_padding = input[1]
                    /\ Len(ret.val.raw_data) = Len(input) - 1
                    /\ \A i \in 1..(Len(input) - 1) :
                            ret.val.raw_data[i] = input[i + 1]))
    /\ [][op'.name \in {"BitVec::deserialize", "BitView::deserialize"} =>
            input' = input]_vars

\* BitView::deserialize has accepted an input whose padding byte is 255
C5_Witness ==
    /\ op.name = "BitView::deserialize"
    /\ input = <<255, 0, 128>>
    /\ ret.ok

---------------------------------------------------------------------------
(* SpecApi: one vector under every public operation, in any order: the     *)
(* constructors, deserialize of any short input, append_bit, and           *)
(* extend_from_bits by a view from as_bit_view, from_padded_bytes or       *)
(* BitView::deserialize.  Here xa holds the booleans given by append_bit   *)
(* and from_bool_slice since the vector was constructed, and at most       *)
(* MaxCalls calls are made on one vector.                                  *)

\* bytes of the inputs and of the borrowed buffers
ApiBytes == {0, 7, 9, 255}

InitApi ==
    /\ Start
    /\ xs = <<>>
    /\ ys = <<>>
    /\ it = BitVec_iter_bits(new)
    /\ input = <<>>

\* let a = BitVec::deserialize(inp): on Err the caller keeps its vector
ApiDeserialize ==
    /\ ~panicked
    /\ \E inp \in ByteSeqs(ApiBytes, 2) :
          LET r == BitVec_deserialize(inp)
          IN  /\ a' = IF r.ok THEN r.val ELSE a
              /\ xa' = IF r.ok THEN <<>> ELSE xa
              /\ steps' = IF r.ok THEN 0 ELSE steps
    /\ op' = Call("BitVec::deserialize", FALSE)
    /\ UNCHANGED <<overflow_checks, panicked, b, xb, xs, ys, it, ret, emitted, input, buf>>

\* a.append_bit(bit)
ApiAppendBit ==
    /\ ~panicked
    /\ steps < MaxCalls
    /\ Len(a.raw_data) < MaxVecBytes \/ a.last_byte_padding # 0
    /\ steps' = steps + 1
    /\ \E bit \in BOOLEAN :
          LET r == append_bit(a, bit)
          IN  /\ a' = r.self
              /\ panicked' = r.panic
              /\ xa' = Append(xa, bit)
              /\ op' = Call("append_bit", bit)
    /\ UNCHANGED <<overflow_checks, b, xb, xs, ys, it, ret, emitted, input, buf>>

\* a.extend_from_bits(&view), the vector after the call within MaxVecBytes
ApiExtend(view) ==
    /\ ~panicked
    /\ steps < MaxCalls
    /\ Len(a.raw_data) + Len(view.raw_data) <= MaxVecBytes
    /\ steps' = steps + 1
    /\ LET r == extend_from_bits(a, view)
       IN  /\ a' = r.self
           /\ panicked' = r.panic
    /\ op' = Call("extend_from_bits", FALSE)
    /\ UNCHANGED <<overflow_checks, b, xa, xb, xs, ys, it, ret, emitted, input, buf>>

\* a.extend_from_bits(&BitVec::from_bool_slice(bools).as_bit_view())
ApiExtendFromVec ==
    \E bools \in BoolSeqs(MaxBitsB) :
        /\ ~from_bool_slice(bools).panic
        /\ ApiExtend(as_bit_view(from_bool_slice(bools).self))

\* a.extend_from_bits(&BitView::from_padded_bytes(bytes, p))
ApiExtendFromPadded ==
    \E bytes \in ByteSeqs(ApiBytes, 1), p \in ApiBytes :
        ApiExtend(from_padded_bytes(bytes, p))

\* a.extend_from_bits(&BitView::deserialize(inp).unwrap())
ApiExtendFromDeserialized ==
    \E inp \in ByteSeqs(ApiBytes, 2) :
        /\ BitView_deserialize(inp).ok
        /\ ApiExtend(BitView_deserialize(inp).val)

NextApi ==
    \/ NewA
    \/ WithCapacityA
    \/ FromBoolSliceA
    \/ ApiDeserialize
    \/ ApiAppendBit
    \/ ApiExtendFromVec
    \/ ApiExtendFromPadded
    \/ ApiExtendFromDeserialized

SpecApi == InitApi /\ [][NextApi]_vars

\* C8: in every state reached through the public operations append_bit and
\* extend_from_bits complete without a panic (when append_bit takes its
\* last_byte_padding != 0 branch a last byte exists), and the only call
\* that reports an error is deserialize of the empty input.
C8_Infallible == ~panicked

\* C10: whenever append_bit(bit) is called on a vector whose padding is in
\* 0..7 (0 when empty), whatever its padding bit positions hold, the vector
\* then reads back as what it read before followed by bit.
C10_AppendExact ==
    [][(op'.name = "append_bit" /\ ValidPadding(a)) =>
          /\ ~panicked'
          /\ BitVec_to_bool_slice(a') =
                [out   |-> Append(BitVec_to_bool_slice(a).out, op'.bit),
                 panic |-> FALSE]]_vars

=============================================================================
